---- MODULE Spec2Model ----
\* A model of ChatGPT-translate.py: the rate-limited oracle client
\* (ChatGPT.translate), the worker pool and the reassembly of
\* translate_text_file, and the orchestration around it (check_file_path,
\* process_file, process_folder, main).
\*
\* Text is modelled as a sequence of tokens: a word token ("a", "References",
\* ...), a blank " " or a line break "\n".  A paragraph is a sequence of
\* tokens without line breaks; a file's content is a sequence of tokens.
EXTENDS Integers, Sequences, FiniteSets, TLC

----------------------------------------------------------------------------
\* Bounds of the model.

\* The oracle fails at most this many requests in a run of Scenarios.
MaxFailures == 2
\* The oracle fails at most this many requests in a run of BackoffScenarios.
MaxBackoffFailures == 6
\* The clock advances on its own (program start, a request in flight) while
\* it reads less than this; sleeps advance it further.
MaxTime == 2
\* Largest --num_threads value explored.
MaxThreads == 2
\* The longest text, in tokens, the paragraph splitter is tried on.
MaxTextLen == 5

----------------------------------------------------------------------------
\* Text helpers (Python's str methods on token sequences).

NL == "\n"
SP == " "

IsSpace(t) == t \in {SP, NL}

RECURSIVE LStrip(_)
LStrip(s) ==
  IF s = <<>> THEN s
  ELSE IF IsSpace(Head(s)) THEN LStrip(Tail(s)) ELSE s

RECURSIVE RStrip(_)
RStrip(s) ==
  IF s = <<>> THEN s
  ELSE IF IsSpace(s[Len(s)]) THEN RStrip(SubSeq(s, 1, Len(s) - 1)) ELSE s

\* str.strip()
Strip(s) == RStrip(LStrip(s))

\* str.split("\n"): the segments between line breaks, empty ones included.
RECURSIVE SplitLines(_)
SplitLines(s) ==
  IF \A i \in 1..Len(s) : s[i] # NL THEN <<s>>
  ELSE LET i == CHOOSE k \in 1..Len(s) :
                  s[k] = NL /\ \A j \in 1..(k - 1) : s[j] # NL
       IN  <<SubSeq(s, 1, i - 1)>> \o SplitLines(SubSeq(s, i + 1, Len(s)))

\* sep.join(parts)
RECURSIVE Join(_, _)
Join(sep, parts) ==
  IF parts = <<>> THEN <<>>
  ELSE IF Len(parts) = 1 THEN parts[1]
  ELSE parts[1] \o sep \o Join(sep, Tail(parts))

\* re.sub(r"\n{2,}", "\n", s): every run of two or more line breaks becomes one.
RECURSIVE CollapseNewlines(_)
CollapseNewlines(s) ==
  IF Len(s) < 2 THEN s
  ELSE IF s[1] = NL /\ s[2] = NL THEN CollapseNewlines(Tail(s))
  ELSE <<s[1]>> \o CollapseNewlines(Tail(s))

\* p.startswith("References")
StartsWithReferences(p) == Len(p) >= 1 /\ p[1] = "References"

\* [f(x) for x in s]
StripAll(s) == [i \in 1..Len(s) |-> Strip(s[i])]

\* paragraphs = [p.strip() for p in text.split("\n") if p.strip() != ""]
NonEmptyAfterStrip(p) == Strip(p) # <<>>

\* Mutant of SplitParagraphs: the filter reads p != "" instead of p.strip() != "".
NonEmpty(p) == p # <<>>
SplitParagraphsUnstrippedFilter(text) == StripAll(SelectSeq(SplitLines(text), NonEmpty))

SplitParagraphs(text) == StripAll(SelectSeq(SplitLines(text), NonEmptyAfterStrip))

----------------------------------------------------------------------------
\* Values that a Python name may not be bound to yet.

Undef == <<>>
Def(x) == <<x>>
IsDef(v) == v # <<>>
Val(v) == v[1]

----------------------------------------------------------------------------
\* Paths.  A path is [stem, suffix]; the stem is a sequence of name tokens, so
\* that "doc_translated.txt" is [stem |-> <<"doc", "_translated">>,
\* suffix |-> ".txt"].  All files of a run live in one directory.

\* Mutant of ALLOWED_FILE_TYPES: one more extension is let through.
AllowedWithPdf == {".txt", ".md", ".rtf", ".html", ".pdf"}

ALLOWED_FILE_TYPES == {".txt", ".md", ".rtf", ".html"}

Path(stem, suffix) == [stem |-> stem, suffix |-> suffix]

\* The directory given as --input_path in folder mode.
FolderPath == Path(<<"folder">>, "")

is_dir(p) == p = FolderPath

\* str.lower() on a suffix
Lower(suffix) ==
  CASE suffix = ".TXT" -> ".txt"
    [] suffix = ".MD" -> ".md"
    [] OTHER -> suffix

\* stem.endswith(marker), marker one of the name tokens
EndsWith(stem, marker) == Len(stem) >= 1 /\ stem[Len(stem)] = marker

\* stem.endswith("extracted" + marker)
EndsWithExtracted(stem, marker) ==
  Len(stem) >= 2 /\ stem[Len(stem)] = marker /\ stem[Len(stem) - 1] = "_extracted"

\* str(file_path).startswith('http')
IsUrl(p) == Len(p.stem) >= 1 /\ p.stem[1] = "http"

\* file_path.with_name(f"{file_path.stem}<markers>{file_path.suffix}")
WithMarkers(p, markers) == Path(p.stem \o markers, p.suffix)

\* f"{Path(p).parent}/{Path(p).stem}<marker>.txt"
OutputFile(p, marker) == Path(Append(p.stem, marker), ".txt")

\* The value of `options and options.get('bilingual', False)` in
\* check_file_path: options is None, a dict, or the argparse.Namespace that
\* parse_arguments returns, which has no attribute 'get'.
OptionsGetBilingual(options) ==
  CASE options.kind = "None" -> "falsy"
    [] options.kind = "dict" -> IF options.bilingual THEN "truthy" ELSE "falsy"
    [] OTHER -> "AttributeError"

\* Mutant of check_file_path: no file is ever skipped.
check_file_path_always(file_path, options, files) == "True"

\* check_file_path(file_path, options) on the file system files: "True",
\* "False", or the exception it raises.
check_file_path(file_path, options, files) ==
  LET stem == file_path.stem
      translated ==
        \/ WithMarkers(file_path, <<"_translated">>) \in DOMAIN files
        \/ WithMarkers(file_path, <<"_extracted", "_translated">>) \in DOMAIN files
      bilingual ==
        \/ WithMarkers(file_path, <<"_bilingual">>) \in DOMAIN files
        \/ WithMarkers(file_path, <<"_extracted", "_bilingual">>) \in DOMAIN files
      get == OptionsGetBilingual(options)
      second ==
        IF ~bilingual THEN "True"
        ELSE IF get = "AttributeError" THEN "AttributeError"
        ELSE IF get = "truthy" THEN "False" ELSE "True"
  IN  IF Lower(file_path.suffix) \notin ALLOWED_FILE_TYPES /\ ~IsUrl(file_path)
        THEN "Exception"
      ELSE IF EndsWith(stem, "_translated") \/ EndsWithExtracted(stem, "_translated")
        THEN "False"
      ELSE IF EndsWith(stem, "_bilingual") \/ EndsWithExtracted(stem, "_bilingual")
        THEN "False"
      ELSE IF ~translated THEN second
      ELSE IF get = "AttributeError" THEN "AttributeError"
      ELSE IF get = "falsy" THEN "False" ELSE second

----------------------------------------------------------------------------
\* The translation oracle (openai.ChatCompletion.create and the extraction of
\* the message content).  A successful response to a paragraph is its
\* translation, marked "T", possibly wrapped in white space.

Variants == {"plain", "padded"}

Response(text, variant) ==
  IF variant = "padded" THEN <<SP, "T">> \o text \o <<NL>>
  ELSE <<"T">> \o text

----------------------------------------------------------------------------
\* Inputs of a run.

\* File contents.
TextRefs == <<"a", NL, NL, SP, NL, SP, "b", NL, "References", NL, "r">>
TextEarlyRefs == <<"a", NL, "References", SP, "x", NL, "c", NL, "d">>
TextOnlyRefs == <<"References", NL, "r">>
TextNoRefs == <<SP, "a", NL, NL>>
TextDone == <<"T", "a">>
\* what a run without --bilingual writes for TextEarlyRefs
TextEarlyRefsDone ==
  <<"a", NL, "References", SP, "x", NL, "c", NL, "T", "a",
    "References", SP, "x", NL, "c", NL, "d">>

Doc == Path(<<"doc">>, ".txt")
Notes == Path(<<"notes">>, ".md")
ScanPdf == Path(<<"scan">>, ".pdf")
DocTranslated == Path(<<"doc", "_translated">>, ".txt")
DocBilingual == Path(<<"doc", "_bilingual">>, ".txt")
NotesTranslated == Path(<<"notes", "_translated">>, ".txt")

\* [files, input_path]: what is on disk and what --input_path names.
Scenarios ==
  { [files |-> (Doc :> t), input_path |-> Doc] :
      t \in {TextRefs, TextEarlyRefs, TextOnlyRefs, TextNoRefs} }
  \cup
  { [files |-> (Doc :> TextRefs) @@ (DocTranslated :> TextDone), input_path |-> p] :
      p \in {Doc, FolderPath} }
  \cup
  { [files |-> (Doc :> TextRefs) @@ (DocBilingual :> TextDone), input_path |-> p] :
      p \in {Doc, FolderPath} }
  \cup
  { [files |-> (Doc :> TextOnlyRefs) @@ (Notes :> TextEarlyRefs) @@ (ScanPdf :> TextDone),
     input_path |-> p] : p \in {FolderPath, ScanPdf} }
  \cup
  \* two files with a paragraph to translate each
  { [files |-> (Doc :> TextEarlyRefs) @@ (Notes :> TextEarlyRefs),
     input_path |-> FolderPath] }
  \cup
  \* a second run on notes.md, beside the output of the first
  { [files |-> (Notes :> TextEarlyRefs) @@ (NotesTranslated :> TextEarlyRefsDone),
     input_path |-> Notes] }

\* Inputs with one paragraph to translate per file, which the oracle may fail
\* often enough for the backoff to reach max_backoff_time.
BackoffScenarios ==
  { [files |-> (Doc :> TextOnlyRefs) @@ (Notes :> TextEarlyRefs) @@ (ScanPdf :> TextDone),
     input_path |-> p] : p \in {FolderPath, Notes} }

\* The options object parse_arguments returns (an argparse.Namespace).
\* --include_references and --keep_first_three_paragraphs are store_true flags
\* whose default is True (lines 221-234): the parser never yields False.
Options ==
  [ kind : {"Namespace"},
    openai_key : BOOLEAN,            \* a key is given or OPENAI_API_KEY is set
    num_threads : 1..MaxThreads,
    bilingual : BOOLEAN,
    include_references : {TRUE},
    keep_first_three_paragraphs : {TRUE} ]

----------------------------------------------------------------------------
\* State.

Workers == 1..MaxThreads

VARIABLES
  files,                  \* the file system: path -> content
  files0,                 \* the file system when the run started
  input_path,             \* --input_path
  options,                \* the parsed options
  pc,                     \* where the main thread is
  error,                  \* the exception that ended the run, "" if none
  files_to_process,       \* process_folder: the listed files not yet visited
  file_path,              \* process_file: the file at hand
  paragraphs,             \* translate_text_file locals
  first_three_paragraphs,
  ref_paragraphs,
  translated_paragraphs,
  translated_text,
  bilingual_text,
  last_request_time,      \* translator.last_request_time
  request_interval,       \* translator.request_interval
  futures,                \* executor.map: the result of each submitted call
  next_task,              \* executor: the next queued call
  wpc,                    \* per worker: where it is in ChatGPT.translate
  task,                   \* per worker: index of the paragraph it translates
  elapsed_time,           \* per worker: local elapsed_time
  loaded,                 \* per worker: the value read by request_interval *= 2
  wake,                   \* per worker: when its time.sleep ends
  now,                    \* time.monotonic()
  failures,               \* exceptions raised inside translate so far
  fail_limit,             \* exceptions the run may see in all
  sent,                   \* history: the requests the oracle has received
  completed,              \* history: the calls of this file, as they returned
  last_dispatch,          \* history: time of the latest request, -1 if none
  last_gap,               \* history: <<gap, interval>> of the latest two requests
  requests,               \* history: per call of this file, the requests sent
  failed                  \* history: per call of this file, the requests that raised

env_vars == <<files0, input_path, options, fail_limit>>
main_vars == <<pc, error, files_to_process, file_path>>
local_vars == <<paragraphs, first_three_paragraphs, ref_paragraphs,
                translated_paragraphs, translated_text, bilingual_text>>
client_vars == <<last_request_time, request_interval>>
pool_vars == <<futures, next_task, wpc, task, elapsed_time, loaded, wake>>
hist_vars == <<sent, completed, last_dispatch, last_gap, requests, failed>>
vars == <<files, env_vars, main_vars, local_vars, client_vars, pool_vars,
          now, failures, hist_vars>>

\* ChatGPT.__init__
max_backoff_time == 60
InitialInterval == 1

InitWith(limit, scenarios) ==
  /\ \E s \in scenarios :
       /\ files = s.files
       /\ files0 = s.files
       /\ input_path = s.input_path
  /\ options \in Options
  /\ fail_limit = limit
  /\ pc = "parse_arguments"
  /\ error = ""
  /\ files_to_process = {}
  /\ file_path = FolderPath
  /\ paragraphs = <<>>
  /\ first_three_paragraphs = <<>>
  /\ ref_paragraphs = Undef
  /\ translated_paragraphs = Undef
  /\ translated_text = Undef
  /\ bilingual_text = Undef
  /\ last_request_time = 0
  /\ request_interval = InitialInterval
  /\ futures = <<>>
  /\ next_task = 1
  /\ wpc = [w \in Workers |-> "idle"]
  /\ task = [w \in Workers |-> 0]
  /\ elapsed_time = [w \in Workers |-> 0]
  /\ loaded = [w \in Workers |-> 0]
  /\ wake = [w \in Workers |-> 0]
  /\ now = 0
  /\ failures = 0
  /\ sent = {}
  /\ completed = <<>>
  /\ last_dispatch = -1
  /\ last_gap = <<>>
  /\ requests = <<>>
  /\ failed = <<>>

Init ==
  \/ InitWith(MaxFailures, Scenarios)
  \/ InitWith(MaxBackoffFailures, BackoffScenarios)

----------------------------------------------------------------------------
\* translate_text_file: the pure parts.

Min(a, b) == IF a < b THEN a ELSE b
Max(a, b) == IF a > b THEN a ELSE b

\* Mutant of FirstThree: paragraphs[:2]
FirstTwo(ps) == SubSeq(ps, 1, Min(2, Len(ps)))

\* paragraphs[:3]
FirstThree(ps) == SubSeq(ps, 1, Min(3, Len(ps)))

\* The index at which the loop of lines 93-98 breaks, 0 if it never does.
ReferencesIndex(ps) ==
  IF \E i \in 1..Len(ps) : StartsWithReferences(ps[i])
  THEN CHOOSE i \in 1..Len(ps) :
         /\ StartsWithReferences(ps[i])
         /\ \A j \in 1..(i - 1) : ~StartsWithReferences(ps[j])
  ELSE 0

\* Mutant of BodyParagraphs: the cut is one paragraph late.
BodyParagraphsThrough(ps, i) == SubSeq(ps, 1, i)

\* Mutant of RefParagraphs: paragraphs[i+1:], the block without its heading.
RefParagraphsAfter(ps, i) == SubSeq(ps, i + 1, Len(ps))

\* paragraphs[i:] and paragraphs[:i], i counted from 1 here
RefParagraphs(ps, i) == SubSeq(ps, i, Len(ps))
BodyParagraphs(ps, i) == SubSeq(ps, 1, i - 1)

\* Mutant of BilingualText: each translation is paired with the next paragraph.
BilingualTextShifted(ps, ts) ==
  Join(<<NL>>, [k \in 1..Min(Len(ps), Len(ts)) |->
                  ps[k] \o <<NL>> \o ts[(k % Len(ts)) + 1]])

\* "\n".join(f"{paragraph}\n{translation}" for ... in zip(paragraphs, translated))
BilingualText(ps, ts) ==
  Join(<<NL>>, [k \in 1..Min(Len(ps), Len(ts)) |-> ps[k] \o <<NL>> \o ts[k]])

\* "\n".join(first_three_paragraphs) + "\n" + text
WithFirstThree(first, text) == Join(<<NL>>, first) \o <<NL>> \o text

\* text += "\n".join(ref_paragraphs)
WithReferences(text, refs) == text \o Join(<<NL>>, refs)

----------------------------------------------------------------------------
\* The main thread.

Raise(kind) ==
  /\ pc' = "raised"
  /\ error' = kind

\* Where process_file returns to.
ReturnPc == IF is_dir(input_path) THEN "process_folder" ELSE "done"

\* The locals of translate_text_file go out of scope when it returns.
DropLocals ==
  /\ paragraphs' = <<>>
  /\ first_three_paragraphs' = <<>>
  /\ ref_paragraphs' = Undef
  /\ translated_paragraphs' = Undef
  /\ translated_text' = Undef
  /\ bilingual_text' = Undef

\* parse_arguments, lines 236-240
ParseArguments ==
  /\ pc = "parse_arguments"
  /\ IF ~options.openai_key
       THEN Raise("Exception")
       ELSE pc' = "main" /\ UNCHANGED error
  /\ UNCHANGED <<files, env_vars, files_to_process, file_path, local_vars,
                 client_vars, pool_vars, now, failures, hist_vars>>

\* main, lines 293-298
Main ==
  /\ pc = "main"
  /\ IF is_dir(input_path)
       THEN /\ files_to_process' = DOMAIN files      \* list(folder_path.rglob("*"))
            /\ pc' = "process_folder"
            /\ UNCHANGED file_path
       ELSE /\ file_path' = input_path
            /\ pc' = "process_file"
            /\ UNCHANGED files_to_process
  /\ UNCHANGED <<files, env_vars, error, local_vars, client_vars, pool_vars,
                 now, failures, hist_vars>>

\* process_folder, lines 281-287: one iteration of the loop, in any order of
\* the listing.
ProcessFolder ==
  /\ pc = "process_folder"
  /\ IF files_to_process = {}
       THEN pc' = "done" /\ UNCHANGED <<files_to_process, file_path>>
       ELSE \E f \in files_to_process :
              /\ files_to_process' = files_to_process \ {f}
              /\ IF f \in DOMAIN files /\ Lower(f.suffix) \in ALLOWED_FILE_TYPES
                   THEN file_path' = f /\ pc' = "process_file"
                   ELSE UNCHANGED <<file_path, pc>>
  /\ UNCHANGED <<files, env_vars, error, local_vars, client_vars, pool_vars,
                 now, failures, hist_vars>>

\* process_file, lines 271-273
ProcessFile ==
  /\ pc = "process_file"
  /\ LET ok == check_file_path(file_path, options, files)
     IN  CASE ok = "True" -> pc' = "translate_text_file" /\ UNCHANGED error
           [] ok = "False" -> pc' = ReturnPc /\ UNCHANGED error
           [] OTHER -> Raise(ok)
  /\ UNCHANGED <<files, env_vars, files_to_process, file_path, local_vars,
                 client_vars, pool_vars, now, failures, hist_vars>>

\* translate_text_file, lines 82-89: a new client, the paragraphs of the file.
\* The inputs of the scenarios are local .txt and .md files, which
\* read_and_preprocess_data reads and splits (lines 159-160 and 171-172).
TranslateTextFile ==
  /\ pc = "translate_text_file"
  /\ last_request_time' = 0
  /\ request_interval' = InitialInterval
  /\ paragraphs' = SplitParagraphs(files[file_path])
  /\ first_three_paragraphs' = FirstThree(paragraphs')
  /\ pc' = "l92"
  /\ last_dispatch' = -1
  /\ last_gap' = <<>>
  /\ completed' = <<>>
  /\ requests' = <<>>
  /\ failed' = <<>>
  /\ UNCHANGED <<files, env_vars, error, files_to_process, file_path,
                 ref_paragraphs, translated_paragraphs, translated_text,
                 bilingual_text, pool_vars, now, failures, sent>>

\* lines 92-98: take the reference block out of paragraphs
TakeOutReferences ==
  /\ pc = "l92"
  /\ IF options.include_references
       THEN /\ LET i == ReferencesIndex(paragraphs)
               IN  IF i = 0
                     THEN UNCHANGED <<paragraphs, ref_paragraphs>>
                     ELSE /\ ref_paragraphs' = Def(RefParagraphs(paragraphs, i))
                          /\ paragraphs' = BodyParagraphs(paragraphs, i)
            /\ pc' = "l100"
       ELSE /\ pc' = "l109"
            /\ UNCHANGED <<paragraphs, ref_paragraphs>>
  /\ UNCHANGED <<files, env_vars, error, files_to_process, file_path,
                 first_three_paragraphs, translated_paragraphs, translated_text,
                 bilingual_text, client_vars, pool_vars, now, failures, hist_vars>>

\* lines 100-102: executor.map submits one call per paragraph, in order
Submit ==
  /\ pc = "l100"
  /\ futures' = [k \in 1..Len(paragraphs) |-> Undef]
  /\ next_task' = 1
  /\ pc' = "l101"
  /\ requests' = [k \in 1..Len(paragraphs) |-> 0]
  /\ failed' = [k \in 1..Len(paragraphs) |-> 0]
  /\ UNCHANGED <<files, env_vars, error, files_to_process, file_path, local_vars,
                 client_vars, wpc, task, elapsed_time, loaded, wake, now,
                 failures, sent, completed, last_dispatch, last_gap>>

\* Mutant of ResultsInOrder: the results taken in the opposite order.
ResultsReversed(fs) == [k \in 1..Len(fs) |-> Val(fs[Len(fs) + 1 - k])]

\* executor.map yields the results in the order of the calls.
ResultsInOrder(fs) == [k \in 1..Len(fs) |-> Val(fs[k])]

\* lines 101-105: list(...) takes the results in the order of submission, and
\* leaving the with block waits for the workers and drops the executor
CollectResults ==
  /\ pc = "l101"
  /\ \A k \in 1..Len(futures) : IsDef(futures[k])
  /\ \A w \in Workers : wpc[w] = "idle"
  /\ translated_paragraphs' = Def(ResultsInOrder(futures))
  /\ futures' = <<>>
  /\ next_task' = 1
  /\ pc' = "l106"
  /\ UNCHANGED <<files, env_vars, error, files_to_process, file_path, paragraphs,
                 first_three_paragraphs, ref_paragraphs, translated_text,
                 bilingual_text, client_vars, wpc, task, elapsed_time, loaded,
                 wake, now, failures, hist_vars>>

\* lines 106-108
StripAndJoin ==
  /\ pc = "l106"
  /\ translated_paragraphs' = Def(StripAll(Val(translated_paragraphs)))
  /\ translated_text' = Def(Join(<<NL>>, Val(translated_paragraphs')))
  /\ pc' = "l109"
  /\ UNCHANGED <<files, env_vars, error, files_to_process, file_path, paragraphs,
                 first_three_paragraphs, ref_paragraphs, bilingual_text,
                 client_vars, pool_vars, now, failures, hist_vars>>

\* lines 109-112 and 124-126: the body of the output.  A name that was never
\* bound raises NameError.
BodyText ==
  /\ pc = "l109"
  /\ IF options.bilingual
       THEN IF ~IsDef(translated_paragraphs)
              THEN Raise("NameError") /\ UNCHANGED <<bilingual_text, translated_text>>
              ELSE /\ bilingual_text' =
                        Def(BilingualText(paragraphs, Val(translated_paragraphs)))
                   /\ pc' = "l114"
                   /\ UNCHANGED <<error, translated_text>>
       ELSE IF ~IsDef(translated_text)
              THEN Raise("NameError") /\ UNCHANGED <<bilingual_text, translated_text>>
              ELSE /\ translated_text' = Def(CollapseNewlines(Val(translated_text)))
                   /\ pc' = "l114"
                   /\ UNCHANGED <<error, bilingual_text>>
  /\ UNCHANGED <<files, env_vars, files_to_process, file_path, paragraphs,
                 first_three_paragraphs, ref_paragraphs, translated_paragraphs,
                 client_vars, pool_vars, now, failures, hist_vars>>

\* lines 113-116 and 127-130
KeepFirstThree ==
  /\ pc = "l114"
  /\ IF options.keep_first_three_paragraphs
       THEN IF options.bilingual
              THEN /\ bilingual_text' =
                        Def(WithFirstThree(first_three_paragraphs, Val(bilingual_text)))
                   /\ UNCHANGED translated_text
              ELSE /\ translated_text' =
                        Def(WithFirstThree(first_three_paragraphs, Val(translated_text)))
                   /\ UNCHANGED bilingual_text
       ELSE UNCHANGED <<bilingual_text, translated_text>>
  /\ pc' = "l118"
  /\ UNCHANGED <<files, env_vars, error, files_to_process, file_path, paragraphs,
                 first_three_paragraphs, ref_paragraphs, translated_paragraphs,
                 client_vars, pool_vars, now, failures, hist_vars>>

\* lines 117-119 and 131-133
AppendReferences ==
  /\ pc = "l118"
  /\ IF options.include_references
       THEN IF ~IsDef(ref_paragraphs)
              THEN Raise("NameError") /\ UNCHANGED <<bilingual_text, translated_text>>
              ELSE /\ IF options.bilingual
                        THEN /\ bilingual_text' =
                                  Def(WithReferences(Val(bilingual_text), Val(ref_paragraphs)))
                             /\ UNCHANGED translated_text
                        ELSE /\ translated_text' =
                                  Def(WithReferences(Val(translated_text), Val(ref_paragraphs)))
                             /\ UNCHANGED bilingual_text
                   /\ pc' = "l120"
                   /\ UNCHANGED error
       ELSE pc' = "l120" /\ UNCHANGED <<error, bilingual_text, translated_text>>
  /\ UNCHANGED <<files, env_vars, files_to_process, file_path, paragraphs,
                 first_three_paragraphs, ref_paragraphs, translated_paragraphs,
                 client_vars, pool_vars, now, failures, hist_vars>>

\* lines 120-123 and 134-137: write the output file and return
WriteOutput ==
  /\ pc = "l120"
  /\ LET out == IF options.bilingual THEN OutputFile(file_path, "_bilingual")
                ELSE OutputFile(file_path, "_translated")
         text == IF options.bilingual THEN Val(bilingual_text) ELSE Val(translated_text)
     IN  files' = [p \in DOMAIN files \cup {out} |-> IF p = out THEN text ELSE files[p]]
  /\ pc' = ReturnPc
  /\ DropLocals
  /\ UNCHANGED <<env_vars, error, files_to_process, file_path, client_vars,
                 pool_vars, now, failures, hist_vars>>

----------------------------------------------------------------------------
\* The workers of the pool, each running ChatGPT.translate on one paragraph
\* at a time.  The client takes no lock: every read and write of
\* last_request_time and request_interval is a step of its own.

\* Mutant of OnException: the exception leaves translate.
OnExceptionRaise == "raise"

\* `except Exception` catches whatever the try block raises; the handler
\* starts at line 67.
OnException == "l69"

\* self.request_interval *= 2, the product
Doubled(interval) == interval * 2

SetW(f, w, v) == [f EXCEPT ![w] = v]

\* Mutant of TakeTask: the pool starts a thread for every queued call,
\* whatever max_workers says.
TakeTaskUnbounded(w) ==
  /\ pc = "l101"
  /\ wpc[w] = "idle"
  /\ \A v \in 1..(w - 1) : wpc[v] # "idle"
  /\ next_task <= Len(futures)
  /\ task' = SetW(task, w, next_task)
  /\ next_task' = next_task + 1
  /\ wpc' = SetW(wpc, w, "l32")
  /\ UNCHANGED <<files, env_vars, main_vars, local_vars, client_vars, futures,
                 elapsed_time, loaded, wake, now, failures, hist_vars>>

\* A pool thread takes the next queued call.  The threads are interchangeable:
\* the one that takes it is named by the least index that is idle.
TakeTask(w) ==
  /\ pc = "l101"
  /\ w <= options.num_threads
  /\ wpc[w] = "idle"
  /\ \A v \in 1..(w - 1) : wpc[v] # "idle"
  /\ next_task <= Len(futures)
  /\ task' = SetW(task, w, next_task)
  /\ next_task' = next_task + 1
  /\ wpc' = SetW(wpc, w, "l32")
  /\ UNCHANGED <<files, env_vars, main_vars, local_vars, client_vars, futures,
                 elapsed_time, loaded, wake, now, failures, hist_vars>>

\* line 32
ReadElapsed(w) ==
  /\ wpc[w] = "l32"
  /\ elapsed_time' = SetW(elapsed_time, w, now - last_request_time)
  /\ wpc' = SetW(wpc, w, "l33")
  /\ UNCHANGED <<files, env_vars, main_vars, local_vars, client_vars, futures,
                 next_task, task, loaded, wake, now, failures, hist_vars>>

\* line 33
CheckInterval(w) ==
  /\ wpc[w] = "l33"
  /\ wpc' = SetW(wpc, w, IF elapsed_time[w] < request_interval THEN "l34" ELSE "l35")
  /\ UNCHANGED <<files, env_vars, main_vars, local_vars, client_vars, futures,
                 next_task, task, elapsed_time, loaded, wake, now, failures,
                 hist_vars>>

\* line 34: request_interval is read again; time.sleep of a negative length
\* raises ValueError, inside the try block
SleepInterval(w) ==
  /\ wpc[w] = "l34"
  /\ LET length == request_interval - elapsed_time[w]
     IN  IF length < 0
           THEN /\ failures < fail_limit
                /\ failures' = failures + 1
                /\ wpc' = SetW(wpc, w, OnException)
                /\ UNCHANGED wake
           ELSE /\ wake' = SetW(wake, w, now + length)
                /\ wpc' = SetW(wpc, w, "sleep34")
                /\ UNCHANGED failures
  /\ UNCHANGED <<files, env_vars, main_vars, local_vars, client_vars, futures,
                 next_task, task, elapsed_time, loaded, now, hist_vars>>

\* time.sleep returns, not before its length has passed
WakeUp(w) ==
  /\ wpc[w] \in {"sleep34", "sleep75"}
  /\ now' = Max(now, wake[w])
  /\ wpc' = SetW(wpc, w, IF wpc[w] = "sleep34" THEN "l35" ELSE "l32")
  /\ wake' = SetW(wake, w, 0)
  /\ UNCHANGED <<files, env_vars, main_vars, local_vars, client_vars, futures,
                 next_task, task, elapsed_time, loaded, failures, hist_vars>>

\* lines 35-62: the time of the request is recorded and the request goes to
\* the oracle
SendRequest(w) ==
  /\ wpc[w] = "l35"
  /\ last_request_time' = now
  /\ sent' = sent \cup {[file |-> file_path, index |-> task[w],
                         text |-> paragraphs[task[w]]]}
  /\ last_gap' = IF last_dispatch >= 0
                   THEN <<now - last_dispatch, request_interval>>
                   ELSE last_gap
  /\ last_dispatch' = now
  /\ wpc' = SetW(wpc, w, "await")
  /\ requests' = [requests EXCEPT ![task[w]] = @ + 1]
  /\ UNCHANGED <<files, env_vars, main_vars, local_vars, request_interval,
                 futures, next_task, task, elapsed_time, loaded, wake, now,
                 failures, completed, failed>>

\* Mutant of Succeed: the break of line 65 is missing, the loop goes round
\* again after an answer.
SucceedWithoutBreak(w) ==
  /\ wpc[w] = "await"
  /\ \E v \in Variants :
       futures' = [futures EXCEPT ![task[w]] = Def(Response(paragraphs[task[w]], v))]
  /\ wpc' = SetW(wpc, w, "l32")
  /\ completed' = Append(completed, task[w])
  /\ UNCHANGED <<files, env_vars, main_vars, local_vars, client_vars, next_task,
                 task, elapsed_time, loaded, wake, now, failures, sent,
                 last_dispatch, last_gap, requests, failed>>

\* lines 63-65 and 78: the oracle answers and translate returns the content
Succeed(w) ==
  /\ wpc[w] = "await"
  /\ \E v \in Variants :
       futures' = [futures EXCEPT ![task[w]] = Def(Response(paragraphs[task[w]], v))]
  /\ wpc' = SetW(wpc, w, "idle")
  /\ task' = SetW(task, w, 0)
  /\ elapsed_time' = SetW(elapsed_time, w, 0)
  /\ loaded' = SetW(loaded, w, 0)
  /\ completed' = Append(completed, task[w])
  /\ UNCHANGED <<files, env_vars, main_vars, local_vars, client_vars, next_task,
                 wake, now, failures, sent, last_dispatch, last_gap, requests,
                 failed>>

\* line 66: the request raises (rate limit, network, malformed response)
Fail(w) ==
  /\ wpc[w] = "await"
  /\ failures < fail_limit
  /\ failures' = failures + 1
  /\ wpc' = SetW(wpc, w, OnException)
  /\ failed' = [failed EXCEPT ![task[w]] = @ + 1]
  /\ UNCHANGED <<files, env_vars, main_vars, local_vars, client_vars, futures,
                 next_task, task, elapsed_time, loaded, wake, now, sent,
                 completed, last_dispatch, last_gap, requests>>

\* line 69, the read of self.request_interval *= 2
LoadInterval(w) ==
  /\ wpc[w] = "l69"
  /\ loaded' = SetW(loaded, w, request_interval)
  /\ wpc' = SetW(wpc, w, "l69w")
  /\ UNCHANGED <<files, env_vars, main_vars, local_vars, client_vars, futures,
                 next_task, task, elapsed_time, wake, now, failures, hist_vars>>

\* line 69, the write of self.request_interval *= 2
StoreInterval(w) ==
  /\ wpc[w] = "l69w"
  /\ request_interval' = Doubled(loaded[w])
  /\ loaded' = SetW(loaded, w, 0)
  /\ wpc' = SetW(wpc, w, "l70")
  /\ UNCHANGED <<files, env_vars, main_vars, local_vars, last_request_time,
                 futures, next_task, task, elapsed_time, wake, now, failures,
                 hist_vars>>

\* line 70
CheckBackoff(w) ==
  /\ wpc[w] = "l70"
  /\ wpc' = SetW(wpc, w, IF request_interval > max_backoff_time THEN "l71" ELSE "l75")
  /\ UNCHANGED <<files, env_vars, main_vars, local_vars, client_vars, futures,
                 next_task, task, elapsed_time, loaded, wake, now, failures,
                 hist_vars>>

\* line 71
CapBackoff(w) ==
  /\ wpc[w] = "l71"
  /\ request_interval' = max_backoff_time
  /\ wpc' = SetW(wpc, w, "l75")
  /\ UNCHANGED <<files, env_vars, main_vars, local_vars, last_request_time,
                 futures, next_task, task, elapsed_time, loaded, wake, now,
                 failures, hist_vars>>

\* lines 72-76: sleep the interval as it reads now, then retry
SleepBackoff(w) ==
  /\ wpc[w] = "l75"
  /\ wake' = SetW(wake, w, now + request_interval)
  /\ wpc' = SetW(wpc, w, "sleep75")
  /\ UNCHANGED <<files, env_vars, main_vars, local_vars, client_vars, futures,
                 next_task, task, elapsed_time, loaded, now, failures, hist_vars>>

\* The clock advances on its own before the run starts (time.monotonic() has
\* no fixed origin) and while a request is with the oracle.
Tick ==
  /\ now < MaxTime
  /\ pc = "parse_arguments" \/ \E w \in Workers : wpc[w] = "await"
  /\ now' = now + 1
  /\ UNCHANGED <<files, env_vars, main_vars, local_vars, client_vars, pool_vars,
                 failures, hist_vars>>

----------------------------------------------------------------------------

Next ==
  \/ ParseArguments
  \/ Main
  \/ ProcessFolder
  \/ ProcessFile
  \/ TranslateTextFile
  \/ TakeOutReferences
  \/ Submit
  \/ CollectResults
  \/ StripAndJoin
  \/ BodyText
  \/ KeepFirstThree
  \/ AppendReferences
  \/ WriteOutput
  \/ \E w \in Workers : TakeTask(w)
  \/ \E w \in Workers : ReadElapsed(w)
  \/ \E w \in Workers : CheckInterval(w)
  \/ \E w \in Workers : SleepInterval(w)
  \/ \E w \in Workers : WakeUp(w)
  \/ \E w \in Workers : SendRequest(w)
  \/ \E w \in Workers : Succeed(w)
  \/ \E w \in Workers : Fail(w)
  \/ \E w \in Workers : LoadInterval(w)
  \/ \E w \in Workers : StoreInterval(w)
  \/ \E w \in Workers : CheckBackoff(w)
  \/ \E w \in Workers : CapBackoff(w)
  \/ \E w \in Workers : SleepBackoff(w)
  \/ Tick

Spec == Init /\ [][Next]_vars

\* The main thread and the pool threads are operating-system threads, every
\* time.sleep ends and every request returns or raises: a run does not stop
\* while one of its threads has a step to take.
FairSpec == Spec /\ WF_vars(Next)

----------------------------------------------------------------------------
\* The paragraph splitter on its own: translate_text_file is entered for
\* doc.txt, whose content is any text of at most MaxTextLen tokens.

Tokens == {"a", "b", SP, NL}
SplitTexts == UNION { [1..n -> Tokens] : n \in 0..MaxTextLen }

InitSplit ==
  /\ \E t \in SplitTexts :
       /\ files = (Doc :> t)
       /\ files0 = (Doc :> t)
  /\ input_path = Doc
  /\ options = [kind |-> "Namespace", openai_key |-> TRUE, num_threads |-> 1,
                bilingual |-> FALSE, include_references |-> TRUE,
                keep_first_three_paragraphs |-> TRUE]
  /\ fail_limit = 0
  /\ pc = "translate_text_file"
  /\ error = ""
  /\ files_to_process = {}
  /\ file_path = Doc
  /\ paragraphs = <<>>
  /\ first_three_paragraphs = <<>>
  /\ ref_paragraphs = Undef
  /\ translated_paragraphs = Undef
  /\ translated_text = Undef
  /\ bilingual_text = Undef
  /\ last_request_time = 0
  /\ request_interval = InitialInterval
  /\ futures = <<>>
  /\ next_task = 1
  /\ wpc = [w \in Workers |-> "idle"]
  /\ task = [w \in Workers |-> 0]
  /\ elapsed_time = [w \in Workers |-> 0]
  /\ loaded = [w \in Workers |-> 0]
  /\ wake = [w \in Workers |-> 0]
  /\ now = 0
  /\ failures = 0
  /\ sent = {}
  /\ completed = <<>>
  /\ last_dispatch = -1
  /\ last_gap = <<>>
  /\ requests = <<>>
  /\ failed = <<>>

NextSplit == TranslateTextFile

SpecSplit == InitSplit /\ [][NextSplit]_vars

----------------------------------------------------------------------------
\* Vocabulary of the properties.

\* The files the run started with.
Inputs == DOMAIN files0

\* The contents of the input files of all scenarios, and their paragraphs as
\* read_and_preprocess_data returns them.
Texts == UNION { {s.files[p] : p \in DOMAIN s.files} : s \in Scenarios \cup BackoffScenarios }
ParagraphsOf == [t \in Texts |-> SplitParagraphs(t)]

\* The paragraphs of input file f.
Orig(f) == ParagraphsOf[files0[f]]

\* The place of the first paragraph of f starting with "References", 0 if none.
FirstReferences == [t \in Texts |-> ReferencesIndex(ParagraphsOf[t])]
RefIndex(f) == FirstReferences[files0[f]]

\* The paragraphs of f before its reference block, and the block.
BodyOf(f) ==
  IF RefIndex(f) = 0 THEN Orig(f)
  ELSE [i \in 1..(RefIndex(f) - 1) |-> Orig(f)[i]]
RefBlockOf(f) ==
  IF RefIndex(f) = 0 THEN <<>>
  ELSE [i \in 1..(Len(Orig(f)) - RefIndex(f) + 1) |-> Orig(f)[RefIndex(f) + i - 1]]

\* What the oracle's answer to a paragraph reads once stripped.
Translation(text) == <<"T">> \o text

\* The output file of f in the requested mode, and whether the run wrote it.
OutputOf(f) ==
  Path(Append(f.stem, IF options.bilingual THEN "_bilingual" ELSE "_translated"),
       ".txt")
Written(f) == OutputOf(f) \in DOMAIN files /\ OutputOf(f) \notin DOMAIN files0

\* The text translate_text_file is building for the requested mode.
Text == IF options.bilingual THEN Val(bilingual_text) ELSE Val(translated_text)

IsPrefix(s, t) == Len(t) <= Len(s) /\ SubSeq(s, 1, Len(t)) = t
IsSuffix(s, t) == Len(t) <= Len(s) /\ SubSeq(s, Len(s) - Len(t) + 1, Len(s)) = t

\* The lines of a text, separated by single line breaks.
RECURSIVE LinesText(_)
LinesText(lines) ==
  IF lines = <<>> THEN <<>>
  ELSE IF Len(lines) = 1 THEN lines[1]
  ELSE lines[1] \o <<NL>> \o LinesText(Tail(lines))

\* s_1, t_1, s_2, t_2, ..., s_n, t_n
RECURSIVE PairedLines(_)
PairedLines(ps) ==
  IF ps = <<>> THEN <<>>
  ELSE <<ps[1], Translation(ps[1])>> \o PairedLines(Tail(ps))

\* t_1, ..., t_n
TranslatedLines(ps) == [i \in 1..Len(ps) |-> Translation(ps[i])]

\* The body output of f in the requested mode.
BodyOutputOf(f) ==
  IF options.bilingual THEN LinesText(PairedLines(BodyOf(f)))
  ELSE LinesText(TranslatedLines(BodyOf(f)))

\* The number of leading paragraphs kept (line 89).
KeepCount == 3

\* The leading paragraphs of f, joined by line breaks and followed by one.
KeptPrefixOf(f) ==
  LinesText([i \in 1..Min(KeepCount, Len(Orig(f))) |-> Orig(f)[i]]) \o <<NL>>

\* The main thread is past line 106 of translate_text_file.
PastStrip == pc \in {"l109", "l114", "l118", "l120"}

WorkerPcs == {"idle", "l32", "l33", "l34", "sleep34", "l35", "await",
              "l69", "l69w", "l70", "l71", "l75", "sleep75"}

----------------------------------------------------------------------------
\* Properties.

\* C1: the translated sequence built by translate_text_file has the length of
\* the body and its i-th element is the stripped answer of the oracle to the
\* i-th body paragraph, whatever the number of workers and the order in which
\* the calls failed and returned.
C1_OrderPreserved ==
  (PastStrip /\ IsDef(translated_paragraphs)) =>
    LET ts == Val(translated_paragraphs)
    IN  /\ Len(ts) = Len(paragraphs)
        /\ \A i \in 1..Len(ts) :
             \E v \in Variants : ts[i] = Strip(Response(paragraphs[i], v))

\* C1 witness: two workers, the second paragraph's call returned first, after
\* a failure, and the sequence is built.
C1_Witness ==
  /\ pc = "l109"
  /\ IsDef(translated_paragraphs)
  /\ completed = <<2, 1>>
  /\ failures >= 1

\* C2 (as claimed): any two successive requests that reach the oracle are at
\* least the request interval apart.
C2_DispatchesSpaced ==
  last_gap # <<>> => last_gap[1] >= last_gap[2]

\* C3 (as claimed): in every reachable state request_interval is at most
\* max_backoff_time.
C3_IntervalWithinMax == request_interval <= max_backoff_time

\* C4: translate never raises and returns only the answer of a successful
\* request for its own paragraph: after any number of failures a worker is
\* still inside translate, and every result a call has returned is an answer
\* of the oracle to that call's paragraph, which the oracle did receive.
C4_TranslateNeverRaises ==
  /\ \A w \in Workers : wpc[w] \in WorkerPcs
  /\ \A k \in 1..Len(futures) :
       IsDef(futures[k]) =>
         /\ \E v \in Variants : Val(futures[k]) = Response(paragraphs[k], v)
         /\ [file |-> file_path, index |-> k, text |-> paragraphs[k]] \in sent
         /\ \E j \in 1..Len(completed) : completed[j] = k

\* C4 witness: one call failed MaxBackoffFailures times in a row and then
\* returned.
C4_Witness ==
  /\ Len(futures) = 1
  /\ IsDef(futures[1])
  /\ failures = MaxBackoffFailures

\* C5: with a first "References" paragraph at index i, no paragraph at index
\* >= i is passed to the oracle, and the output ends with the body output
\* directly followed by the line-break join of paragraphs[i:], in both modes.
C5_ReferencesVerbatim ==
  \A f \in Inputs :
    (options.include_references /\ RefIndex(f) > 0) =>
      /\ \A r \in sent :
           r.file = f => (r.index < RefIndex(f) /\ r.text = Orig(f)[r.index])
      /\ Written(f) =>
           IsSuffix(files[OutputOf(f)], BodyOutputOf(f) \o LinesText(RefBlockOf(f)))

\* C5 witness: a file with body paragraphs and a reference block of two
\* paragraphs has been translated and written.
C5_Witness ==
  \E f \in Inputs :
    /\ RefIndex(f) > 1
    /\ Len(RefBlockOf(f)) >= 2
    /\ Written(f)
    /\ \E r \in sent : r.file = f

\* C6 (as claimed): with no paragraph starting with "References" the run of
\* translate_text_file completes without error.
C6_NoReferencesCompletes ==
  (options.include_references /\ file_path \in Inputs /\ RefIndex(file_path) = 0)
    => pc # "raised"

\* C7: with doc_translated.txt (doc_bilingual.txt in bilingual mode) beside
\* doc.txt when the run starts, the oracle receives no request for doc.txt.
C7_SkipBeforeOracle ==
  \A f \in Inputs :
    (f.suffix = ".txt" /\ OutputOf(f) \in DOMAIN files0) =>
      \A r \in sent : r.file # f

\* C7 witness: process_file has dealt with such a file.
C7_Witness ==
  /\ file_path \in Inputs
  /\ file_path.suffix = ".txt"
  /\ OutputOf(file_path) \in DOMAIN files0
  /\ pc \notin {"process_file", "translate_text_file"}

\* C8 (as claimed): when the output file of the requested mode exists,
\* process_file returns without raising.
C8_SkipReturnsNormally ==
  (file_path \in Inputs /\ OutputOf(file_path) \in DOMAIN files0) => pc # "raised"

\* C9: in bilingual mode the body output is the lines s_1, t_1, ..., s_n, t_n
\* separated by single line breaks.
C9_BilingualPairs ==
  (pc = "l114" /\ options.bilingual) =>
    bilingual_text = Def(LinesText(PairedLines(paragraphs)))

\* C9 witness: a bilingual body of two paragraphs.
C9_Witness ==
  /\ pc = "l114"
  /\ options.bilingual
  /\ Len(paragraphs) = 2

\* C10: with keep-first-paragraphs the output begins with the first three
\* source paragraphs (all of them if fewer), separated by line breaks and
\* followed by one line break, and then the body output, in both modes.
C10_KeptPrefix ==
  /\ (pc = "l118" /\ options.keep_first_three_paragraphs) =>
       Text = KeptPrefixOf(file_path) \o BodyOutputOf(file_path)
  /\ \A f \in Inputs :
       (Written(f) /\ options.keep_first_three_paragraphs) =>
         IsPrefix(files[OutputOf(f)], KeptPrefixOf(f) \o BodyOutputOf(f))

\* C10 witness: a file of more than three paragraphs and one of fewer have
\* been written.
C10_Witness ==
  \E f, g \in Inputs :
    /\ Written(f) /\ Len(Orig(f)) > KeepCount
    /\ Written(g) /\ Len(Orig(g)) < KeepCount

\* C11: a configuration error is fatal and comes before any oracle call: with
\* no credential, or with a target file whose extension is not allowed, the
\* run never gets past process_file, ends by raising, sends no request and
\* writes no file.
C11_ConfigErrorIsFatal ==
  /\ ~options.openai_key =>
       /\ pc \in {"parse_arguments", "raised"}
       /\ sent = {}
       /\ files = files0
  /\ (~is_dir(input_path) /\ ~IsUrl(input_path)
        /\ input_path.suffix \notin {".txt", ".md", ".rtf", ".html"}) =>
       /\ pc \in {"parse_arguments", "main", "process_file", "raised"}
       /\ sent = {}
       /\ files = files0

\* C11 witness: a run with a credential has raised on a .pdf target.
C11_Witness ==
  /\ options.openai_key
  /\ input_path.suffix = ".pdf"
  /\ pc = "raised"
  /\ error = "Exception"

\* The segments of a text: what lies between its line breaks.
Breaks(t) == {i \in 1..Len(t) : t[i] = NL}
Bound(t, k) ==
  IF k = 0 THEN 0
  ELSE IF k = Cardinality(Breaks(t)) + 1 THEN Len(t) + 1
  ELSE CHOOSE i \in Breaks(t) : Cardinality({j \in Breaks(t) : j < i}) = k - 1
Segment(t, k) == SubSeq(t, Bound(t, k - 1) + 1, Bound(t, k) - 1)

\* A segment without its leading and trailing white space.
Trimmed(s) ==
  LET ink == {i \in 1..Len(s) : s[i] \notin {SP, NL}}
  IN  IF ink = {} THEN <<>>
      ELSE SubSeq(s, CHOOSE i \in ink : \A j \in ink : i <= j,
                     CHOOSE i \in ink : \A j \in ink : i >= j)

\* The segments of t that are more than white space.
Kept(t) == {k \in 1..(Cardinality(Breaks(t)) + 1) : Trimmed(Segment(t, k)) # <<>>}

\* C12: the paragraphs read from a text are its newline-delimited segments,
\* each trimmed, in their order, without those that are empty or white space
\* only; nothing else is removed, merged or moved, and no paragraph is empty
\* or begins or ends with white space.
C12_SplitterSegments ==
  pc = "l92" =>
    LET t == files[file_path]
    IN  /\ Len(paragraphs) = Cardinality(Kept(t))
        /\ \A j \in 1..Len(paragraphs) :
             /\ \E k \in Kept(t) :
                  /\ Cardinality({m \in Kept(t) : m < k}) = j - 1
                  /\ paragraphs[j] = Trimmed(Segment(t, k))
             /\ paragraphs[j] # <<>>
             /\ paragraphs[j][1] \notin {SP, NL}
             /\ paragraphs[j][Len(paragraphs[j])] \notin {SP, NL}

\* C12 witness: a text with a blank segment between two paragraphs was split.
C12_Witness ==
  /\ pc = "l92"
  /\ files[file_path] = <<"a", NL, SP, NL, "b">>
  /\ paragraphs = << <<"a">>, <<"b">> >>

\* C13: under fair scheduling and an oracle that fails only finitely often,
\* every file translate_text_file is entered for is eventually written: the
\* function returns with its output file on disk.
C13_EventuallyWritten ==
  (pc = "translate_text_file")
    ~> (pc \in {"process_folder", "done"} /\ OutputOf(file_path) \in DOMAIN files)

\* The same for the files that have a paragraph starting with "References".
C13_WithReferencesWritten ==
  (pc = "translate_text_file" /\ RefIndex(file_path) > 0)
    ~> (pc \in {"process_folder", "done"} /\ OutputOf(file_path) \in DOMAIN files)

\* C14 (as claimed): while one client lives (translate_text_file makes a new
\* one for each file), no step lowers request_interval.
C14_IntervalNeverDecreases ==
  [][pc # "translate_text_file" => request_interval' >= request_interval]_vars

\* The failed requests of this client so far.
RECURSIVE Sum(_)
Sum(q) == IF q = <<>> THEN 0 ELSE Head(q) + Sum(Tail(q))

\* The interval after n failures, each taking it to min(2 * interval, max).
RECURSIVE IntervalAfter(_)
IntervalAfter(n) ==
  IF n = 0 THEN InitialInterval
  ELSE Min(2 * IntervalAfter(n - 1), max_backoff_time)

\* C15 (as claimed): each failed request accounts for one doubling of
\* request_interval, up to the maximum, also when workers fail at the same
\* time: whenever no worker is inside the update of lines 69-71, the interval
\* is the initial one doubled once per failed request, capped.
C15_EachFailureDoubles ==
  (\A w \in Workers : wpc[w] \notin {"l69", "l69w", "l70", "l71"})
    => request_interval = IntervalAfter(Sum(failed))

\* C16: at every moment at most num_threads paragraphs have a translate call
\* in progress, and the files are handled one after another: every request
\* sent so far is for the file at hand or for a file whose output is written.
C16_BoundedAndSequential ==
  /\ Cardinality({w \in Workers : wpc[w] # "idle"}) <= options.num_threads
  /\ \A r \in sent :
       r.file # file_path => OutputOf(r.file) \in DOMAIN files

\* C16 witness: with one thread and a second call queued, the only worker is
\* translating a paragraph of the second file of a folder.
C16_Witness ==
  /\ options.num_threads = 1
  /\ wpc[1] = "await"
  /\ \E r \in sent : r.file # file_path

\* C16 witness of the pool at its limit: one thread, busy, and a call waiting.
C16_PoolFull ==
  /\ options.num_threads = 1
  /\ wpc[1] # "idle"
  /\ next_task <= Len(futures)

\* The three parts of the file at hand, as sets of places in the document,
\* once the reference block is taken out (line 98).
PrefixPlaces == 1..Len(first_three_paragraphs)
BodyPlaces == 1..Len(paragraphs)
RefPlaces == (Len(paragraphs) + 1)..Len(Orig(file_path))
PartsHolding(i) ==
  (IF i \in PrefixPlaces THEN 1 ELSE 0) + (IF i \in BodyPlaces THEN 1 ELSE 0)
    + (IF i \in RefPlaces THEN 1 ELSE 0)

\* The main thread is between line 98 and the end of translate_text_file.
AfterReferences == pc \in {"l100", "l101", "l106", "l109", "l114", "l118", "l120"}

\* C17 (as claimed): kept prefix, body and reference block partition the
\* document: every paragraph is in exactly one of the three.
C17_ThreePartsPartition ==
  AfterReferences =>
    \A i \in 1..Len(Orig(file_path)) : PartsHolding(i) = 1

\* C17 (amended): body and reference block partition the document, wherever
\* the first References paragraph is and when there is none: the body is what
\* precedes it, the block starts with it, and the two in this order are the
\* document; only body paragraphs are sent to the oracle.  The kept prefix is
\* no third part: it is the first min(3, n) paragraphs of the document, each
\* of which is in the body or in the block as well.
C17_BodyAndReferencesPartition ==
  AfterReferences =>
    LET refs == IF IsDef(ref_paragraphs) THEN Val(ref_paragraphs) ELSE <<>>
        n == Len(Orig(file_path))
    IN  /\ paragraphs \o refs = Orig(file_path)
        /\ \A i \in 1..Len(paragraphs) : ~StartsWithReferences(paragraphs[i])
        /\ IsDef(ref_paragraphs) => StartsWithReferences(refs[1])
        /\ \A r \in sent :
             r.file = file_path =>
               r.index \in BodyPlaces /\ r.text = Orig(file_path)[r.index]
        /\ first_three_paragraphs = SubSeq(Orig(file_path), 1, Min(KeepCount, n))
        /\ \A i \in PrefixPlaces : PartsHolding(i) = 2

\* C17 witness: the References paragraph is the second of four; the first
\* paragraph has been sent to the oracle and is in the kept prefix, the
\* second and third are in the kept prefix and in the reference block.
C17_Witness ==
  /\ AfterReferences
  /\ RefIndex(file_path) = 2
  /\ Len(Orig(file_path)) = 4
  /\ \E r \in sent : r.file = file_path /\ r.index \in PrefixPlaces
  /\ {2, 3} \subseteq PrefixPlaces \cap RefPlaces

\* C18 (as claimed): a run on a file of any allowed extension that finds the
\* output of an earlier run (<stem>_translated.txt, <stem>_bilingual.txt in
\* bilingual mode) sends no request for the file and leaves the output as it
\* was.
C18_SecondRunSkips ==
  \A f \in Inputs :
    (Lower(f.suffix) \in ALLOWED_FILE_TYPES /\ OutputOf(f) \in DOMAIN files0) =>
      /\ \A r \in sent : r.file # f
      /\ OutputOf(f) \in DOMAIN files
      /\ files[OutputOf(f)] = files0[OutputOf(f)]

\* The calls that have returned, and the calls whose request is with the oracle.
Returned == {completed[j] : j \in 1..Len(completed)}
InFlight == {task[w] : w \in {v \in Workers : wpc[v] = "await"}}

\* C19: each body paragraph is the subject of exactly one successful request.
\* No call returns twice and no two workers hold the same call; a paragraph
\* has been sent once more than its requests have failed if its request is
\* with the oracle or has been answered, and as often as they failed
\* otherwise; when the pool has finished, every body paragraph has returned
\* once, so the successes are as many as the body paragraphs.
C19_OneSuccessPerParagraph ==
  /\ \A j, k \in 1..Len(completed) : j # k => completed[j] # completed[k]
  /\ \A w, v \in Workers : (w # v /\ task[w] # 0) => task[w] # task[v]
  /\ \A k \in 1..Len(requests) :
       requests[k] = failed[k] + (IF k \in Returned \cup InFlight THEN 1 ELSE 0)
  /\ (pc = "l106" \/ PastStrip) =>
       /\ Len(completed) = Len(paragraphs)
       /\ Returned = 1..Len(paragraphs)
       /\ \A k \in 1..Len(paragraphs) : requests[k] = failed[k] + 1

\* C19 witness: two threads have translated two paragraphs, the first after a
\* failed request, and the pool has finished.
C19_Witness ==
  /\ PastStrip
  /\ options.num_threads = 2
  /\ Len(paragraphs) = 2
  /\ failed[1] >= 1
  /\ requests[1] = failed[1] + 1

====
